---- MODULE Spec2Model ----
(***************************************************************************)
(* Model of the tic-tac-toe services of prog-5-project:                    *)
(*   - the rules service, in its two copies                                *)
(*       "pkg" = src/game_rules_service/game_rules_service/main.py         *)
(*       "top" = src/game_rules_service/main.py                            *)
(*   - the room service, src/room_service/main.py, with its notifier.      *)
(* Python's None is the string "None"; a list is a sequence, so the        *)
(* source's players[0] is players[1] here.  The board keeps the source's   *)
(* indexes 0..8.                                                           *)
(***************************************************************************)
EXTENDS Integers, Sequences, FiniteSets, TLC

None == "None"

\* ------------------------------------------------------------------ bounds
\* How many POST /games requests are handled side by side; in the room
\* service, how many notifier threads are spawned in all (each thread's
\* requests take the slot of its number).
MaxPosts == 2
\* How many set_turn commands the model follows per run.
MaxSetTurn == 1
\* How many applied moves the model follows when two connections or two
\* requests run side by side.
MaxMoves == 2

\* How many rooms the room service creates in the model, in all.
MaxRooms == 1

\* ------------------------------------------------------- program constants
\* notify_game_service_of_full_room(room, max_retries=3, retry_delay=0.6);
\* the delay is counted in tenths of a second.
max_retries == 3
retry_delay == 6

\* ------------------------------------------------------------- input sets
Users == {"alice", "bob", "carol"}
GameIds == {"g1"}
Conns == {"c1", "c2"}
Posts == 1..MaxPosts
Variants == {"pkg", "top"}

\* What token validation yields for a command: the username, or no token
\* in the message and the query string, or a token the user service refuses.
NoToken == "NoToken"
AuthFailed == "AuthFailed"

\* Positions a move command may carry (an int); -1 and 9 are out of range.
Positions == -1..9

\* The bodies of POST /games the model sends: a regular pair, a pair with
\* an explicit second starter, a starter outside the pair, the same
\* identity twice (min_items=2, max_items=2 admit it).
CreateInputs ==
    { [game_id |-> "g1", players |-> <<"alice", "bob">>, starting |-> None],
      [game_id |-> "g1", players |-> <<"alice", "bob">>, starting |-> "bob"],
      [game_id |-> "g1", players |-> <<"alice", "bob">>, starting |-> "carol"],
      [game_id |-> "g1", players |-> <<"alice", "alice">>, starting |-> None] }

\* The part of the system a run exercises: the connections that attach,
\* the POST /games requests made and their bodies, the applied moves
\* followed, the frames sent besides move and set_turn, the copies of the
\* rules service, the notifier threads that may be spawned, the capacities
\* rooms are created with, whether the send tasks of broadcasts are followed
\* one by one (else a broadcast is the event of the step that makes it).
RegularBody ==
    [game_id |-> "g1", players |-> <<"alice", "bob">>, starting |-> None]

VARIABLES
    scope,            \* the part of the system this run exercises
    variant,          \* which copy of the rules service runs
    store,            \* table "games": game id -> row, or NoGame
    WS_CONNECTIONS,   \* game id -> list of registered websockets
    pc,               \* websocket handler's position
    gid,              \* websocket handler's game id (path parameter)
    g,                \* websocket handler's local g (the loaded game)
    msg,              \* websocket handler's command being processed (cmd)
    running,          \* the coroutine holding the event loop, or None
    ppc,              \* POST /games worker thread's position
    preq,             \* POST /games request body
    presp,            \* POST /games response status
    event,            \* what the last step sent: replies and broadcasts
    lastMover,        \* game id -> who made the last applied move
    nSetTurn,         \* set_turn commands processed so far
    nMoves,           \* moves applied so far
    outbox,           \* the send tasks created on the event loop, not yet run
    inbox             \* connection -> the game_update messages its socket got

VARIABLES
    ROOMS,            \* room code -> number of the room dict, 0 when absent
    rooms,            \* the room dicts, by number of creation
    nRooms,           \* room dicts created so far
    rresp,            \* the room service's last response
    npc,              \* notifier thread's position ("free": not spawned)
    nroom,            \* notifier thread's room (the dict it was given)
    npayload,         \* notifier thread's payload: game_id and starting
    nattempt,         \* notifier thread's loop variable attempt
    nslept,           \* the delays the notifier thread has slept
    jroom             \* caller -> the room dict its join_room call holds
                      \* between its capacity check and its append, else 0

roomVars == <<ROOMS, rooms, nRooms, rresp, npc, nroom, npayload, nattempt,
              nslept, jroom>>

netVars == <<outbox, inbox>>

gameVars == <<variant, store, WS_CONNECTIONS, pc, gid, g, msg, running,
              ppc, preq, presp, event, lastMover, nSetTurn, nMoves, scope,
              outbox, inbox>>

\* ------------------------------------------------------------ game helpers
WIN_LINES ==
    << <<0,1,2>>, <<3,4,5>>, <<6,7,8>>,
       <<0,3,6>>, <<1,4,7>>, <<2,5,8>>,
       <<0,4,8>>, <<2,4,6>> >>

new_board == [i \in 0..8 |-> None]

\* The indexes of WIN_LINES whose three cells hold the same marker.
LinesWon(board) ==
    { i \in 1..Len(WIN_LINES) :
        /\ board[WIN_LINES[i][1]] # None
        /\ board[WIN_LINES[i][1]] = board[WIN_LINES[i][2]]
        /\ board[WIN_LINES[i][2]] = board[WIN_LINES[i][3]] }

BoardFull(board) == \A i \in 0..8 : board[i] # None

check_winner_draw_first(board) ==
    IF BoardFull(board) THEN "draw"
    ELSE IF LinesWon(board) # {}
    THEN LET first == CHOOSE i \in LinesWon(board) :
                          \A j \in LinesWon(board) : i <= j
         IN  board[WIN_LINES[first][1]]
    ELSE None

\* The marker of the first winning line in WIN_LINES order, else "draw"
\* for a full board, else None.
check_winner(board) ==
    IF LinesWon(board) # {}
    THEN LET first == CHOOSE i \in LinesWon(board) :
                          \A j \in LinesWon(board) : i <= j
         IN  board[WIN_LINES[first][1]]
    ELSE IF BoardFull(board) THEN "draw"
    ELSE None

\* A row of table games (id and created_at left out), decoded.
NoGame ==
    [board |-> new_board, players |-> <<>>, turn |-> None,
     symbols |-> <<>>, state |-> "absent", winner |-> None]

\* symbols = {players[0]:"X", players[1]:"O"}: the later key wins when the
\* two players are the same string.
Symbols(players) ==
    [p \in {players[1], players[2]} |-> IF p = players[2] THEN "O" ELSE "X"]

\* The dict create_game builds from a request body.
NewGame(payload) ==
    [board   |-> new_board,
     players |-> payload.players,
     turn    |-> IF payload.starting # None THEN payload.starting
                 ELSE payload.players[1],
     symbols |-> Symbols(payload.players),
     state   |-> "in_progress",
     winner  |-> None]

InPlayers(u, game) == \E i \in 1..Len(game.players) : game.players[i] = u

SymbolOwnerFirst(game, s) == game.players[1]

\* for p,s in g["symbols"].items(): the first key holding marker s.
SymbolOwner(game, s) ==
    IF game.symbols[game.players[1]] = s THEN game.players[1]
    ELSE IF game.symbols[game.players[2]] = s THEN game.players[2]
    ELSE game.winner

FlipTurnStay(game) == game.turn

\* g["turn"] = p1 if g["turn"] == p0 else p0
FlipTurn(game) ==
    IF game.turn = game.players[1] THEN game.players[2] ELSE game.players[1]

\* -------------------------------------------------------------- persistence
\* load_game: the decoded row, or None (NoGame here).
load_game(id) == store[id]

\* persist_game on a session that holds no row of this id yet (create_game):
\* the row is inserted, or, when the query at the top of persist_game finds
\* one, every column is set from the dict.
persist_new(st, id, game) == [st EXCEPT ![id] = game]

\* persist_game on the session that loaded the row (a websocket command):
\* the query returns the session's own object, setattr marks the columns
\* whose value differs from the loaded one and commit writes those columns.
persist_game(st, id, loaded, game) ==
    [st EXCEPT ![id] =
        [k \in DOMAIN game |->
            IF game[k] # loaded[k] THEN game[k] ELSE st[id][k]]]

\* ------------------------------------------------------------ list helpers
\* list.remove(x): the list without the first x; ValueError when absent.
Has(list, x) == \E i \in 1..Len(list) : list[i] = x

RemoveNothing(list, x) == list

Remove(list, x) ==
    IF ~ Has(list, x) THEN list
    ELSE LET k == CHOOSE i \in 1..Len(list) :
                      list[i] = x /\ \A j \in 1..(i-1) : list[j] # x
         IN  [i \in 1..(Len(list)-1) |-> IF i < k THEN list[i] ELSE list[i+1]]

\* ------------------------------------------------------------- move command
MoveErrorPkgCellUnchecked(game, username, intpos, position) ==
    IF game.state = "absent" THEN "game not found"
    ELSE IF game.state # "in_progress" THEN "game not in progress"
    ELSE IF ~ InPlayers(username, game) THEN "you are not a player in this game"
    ELSE IF game.turn # username THEN "not your turn"
    ELSE IF position < 0 \/ position > 8 THEN "position must be 0..8"
    ELSE "ok"

\* The checks of a move in the pkg copy, in order; "ok" when all pass.
MoveErrorPkg(game, username, intpos, position) ==
    IF game.state = "absent" THEN "game not found"
    ELSE IF game.state # "in_progress" THEN "game not in progress"
    ELSE IF ~ InPlayers(username, game) THEN "you are not a player in this game"
    ELSE IF game.turn # username THEN "not your turn"
    ELSE IF position < 0 \/ position > 8 THEN "position must be 0..8"
    ELSE IF game.board[position] # None THEN "cell already taken"
    ELSE IF username \notin DOMAIN game.symbols THEN "no symbol assigned"
    ELSE "ok"

\* The checks of a move in the top copy; "raise" when the handler raises
\* (pos < 0 on a position that is no int).
MoveErrorTop(game, username, intpos, position) ==
    IF game.state = "absent" THEN "raise"
    ELSE IF game.state # "in_progress" THEN "not in progress"
    ELSE IF ~ InPlayers(username, game) THEN "not a player"
    ELSE IF game.turn # username THEN "not your turn"
    ELSE IF ~ intpos THEN "raise"
    ELSE IF position < 0 \/ position > 8 \/ game.board[position] # None
    THEN "invalid move"
    ELSE "ok"

MoveErrorStateUnchecked(v, game, username, intpos, position) ==
    LET open == IF game.state = "absent" THEN game
                ELSE [game EXCEPT !.state = "in_progress"]
    IN  IF v = "pkg" THEN MoveErrorPkg(open, username, intpos, position)
        ELSE MoveErrorTop(open, username, intpos, position)

MoveError(v, game, username, intpos, position) ==
    IF v = "pkg" THEN MoveErrorPkg(game, username, intpos, position)
    ELSE MoveErrorTop(game, username, intpos, position)

ApplyMoveWinnerUnset(v, game, username, position) ==
    LET board == [game.board EXCEPT ![position] = game.symbols[username]]
        w == check_winner(board)
        placed == [game EXCEPT !.board = board]
    IN  IF w = "draw"
        THEN [placed EXCEPT !.state = "finished", !.winner = "draw"]
        ELSE IF w \in {"X", "O"}
        THEN [placed EXCEPT !.state = "finished"]
        ELSE [placed EXCEPT !.turn = FlipTurn(game)]

\* The game dict after the move is applied (both copies), up to the winner.
\* pkg: the winner is the identity that owns the winning marker;
\* top: the winner is the caller.
ApplyMove(v, game, username, position) ==
    LET board == [game.board EXCEPT ![position] = game.symbols[username]]
        w == check_winner(board)
        placed == [game EXCEPT !.board = board]
    IN  IF w = "draw"
        THEN [placed EXCEPT !.state = "finished", !.winner = "draw"]
        ELSE IF w \in {"X", "O"}
        THEN [placed EXCEPT !.state = "finished",
                            !.winner = IF v = "pkg" THEN SymbolOwner(placed, w)
                                       ELSE username]
        ELSE [placed EXCEPT !.turn = FlipTurn(game)]

\* ---------------------------------------------------------- set_turn command
SetTurnErrorTargetUnchecked(game, username, new_player) ==
    IF game.state = "absent" THEN "game not found"
    ELSE IF ~ InPlayers(username, game) THEN "you are not a player"
    ELSE "ok"

\* The checks of set_turn (top copy only); "ok" when all pass.
SetTurnError(game, username, new_player) ==
    IF game.state = "absent" THEN "game not found"
    ELSE IF ~ InPlayers(username, game) THEN "you are not a player"
    ELSE IF ~ InPlayers(new_player, game) THEN "invalid player"
    ELSE "ok"

ApplySetTurn(game, new_player) == [game EXCEPT !.turn = new_player]

\* ------------------------------------------------------------------ events
NoEvent == [conn |-> None, reply |-> None, detail |-> None, bcast |-> <<>>]
Reply(c, kind, detail) ==
    [conn |-> c, reply |-> kind, detail |-> detail, bcast |-> <<>>]
Broadcast(c, conns) ==
    [conn |-> c, reply |-> None, detail |-> None, bcast |-> conns]

\* broadcast_update on the event loop: one send task per registered socket.
broadcast_update(id) ==
    IF store'[id].state = "absent" THEN <<>> ELSE WS_CONNECTIONS[id]

\* asyncio.create_task(ws.send_text(text)) for each registered socket: the
\* tasks join the event loop's queue in the order of the list.
SendTasks(id) ==
    [i \in 1..Len(broadcast_update(id)) |->
        [conn |-> broadcast_update(id)[i], game |-> store'[id]]]

create_tasks(id) ==
    outbox' = IF scope.tasks THEN outbox \o SendTasks(id) ELSE outbox

\* Whether a send on the socket of connection c goes through: its handler
\* has not ended and the client has not gone.
SocketOpen(c) == pc[c] \in {"recv", "loaded", "notfound"}

RunNewest(queue) == Len(queue)

\* The task the event loop runs next: its ready queue is first in, first
\* out, so the task created first.
RunNext(queue) == 1

\* The queue without its k-th task.
Without(queue, k) ==
    [i \in 1..(Len(queue) - 1) |-> IF i < k THEN queue[i] ELSE queue[i + 1]]

\* The event loop runs the next send task: the socket is open and the
\* client gets the message.
SendDelivered(c) ==
    /\ running = None
    /\ outbox # <<>>
    /\ outbox[RunNext(outbox)].conn = c
    /\ SocketOpen(c)
    /\ inbox' = [inbox EXCEPT ![c] = Append(@, outbox[RunNext(outbox)].game)]
    /\ outbox' = Without(outbox, RunNext(outbox))
    /\ event' = NoEvent
    /\ UNCHANGED <<variant, store, WS_CONNECTIONS, pc, gid, g, msg, running,
                   ppc, preq, presp, lastMover, nSetTurn, nMoves, scope,
                   roomVars>>

\* The event loop runs the next send task and send_text raises: the
\* exception stays in the task, which nothing awaits.
SendFailed(c) ==
    /\ running = None
    /\ outbox # <<>>
    /\ outbox[RunNext(outbox)].conn = c
    /\ ~ SocketOpen(c)
    /\ outbox' = Without(outbox, RunNext(outbox))
    /\ event' = NoEvent
    /\ UNCHANGED <<variant, store, WS_CONNECTIONS, pc, gid, g, msg, running,
                   ppc, preq, presp, lastMover, nSetTurn, nMoves, scope,
                   inbox, roomVars>>

AttachReplyToAll(c, id) ==
    [conn |-> c, reply |-> "game_update", detail |-> load_game(id),
     bcast |-> WS_CONNECTIONS[id]]

\* await websocket.send_text of the snapshot loaded at attach.
AttachReply(c, id) == Reply(c, "game_update", load_game(id))

\* ------------------------------------------------- websocket_game, attach
\* The handler up to its first await after registering: accept, append to
\* WS_CONNECTIONS, load the game, then send the snapshot and enter the
\* loop, or send "game not found" and go on to close.
Attach(c, id) ==
    /\ c \in scope.conns
    /\ pc[c] = "closed"
    /\ running = None
    /\ \A i \in 1..Len(outbox) : outbox[i].conn # c
    /\ WS_CONNECTIONS' = [WS_CONNECTIONS EXCEPT ![id] = Append(@, c)]
    /\ gid' = [gid EXCEPT ![c] = id]
    /\ IF load_game(id).state = "absent"
       THEN /\ pc' = [pc EXCEPT ![c] = "notfound"]
            /\ event' = Reply(c, "error", "game not found")
            /\ inbox' = IF scope.tasks THEN [inbox EXCEPT ![c] = <<>>] ELSE inbox
       ELSE /\ pc' = [pc EXCEPT ![c] = "recv"]
            /\ event' = AttachReply(c, id)
            /\ inbox' = IF scope.tasks
                        THEN [inbox EXCEPT ![c] = <<AttachReply(c, id).detail>>]
                        ELSE inbox
    /\ UNCHANGED <<variant, store, g, msg, running, ppc, preq, presp,
                   lastMover, nSetTurn, nMoves, scope, outbox, roomVars>>

\* After the error is sent and the socket closed: the handler unregisters
\* the socket and returns.
AttachNotFoundClose(c) ==
    /\ pc[c] = "notfound"
    /\ running = None
    /\ WS_CONNECTIONS' = [WS_CONNECTIONS EXCEPT ![gid[c]] = Remove(@, c)]
    /\ pc' = [pc EXCEPT ![c] = "closed"]
    /\ event' = NoEvent
    /\ UNCHANGED <<variant, store, gid, g, msg, running, ppc, preq, presp,
                   lastMover, nSetTurn, nMoves, scope, netVars, roomVars>>

\* receive_text raises WebSocketDisconnect: the handler unregisters the socket.
Disconnect(c) ==
    /\ pc[c] = "recv"
    /\ running = None
    /\ WS_CONNECTIONS' = [WS_CONNECTIONS EXCEPT ![gid[c]] = Remove(@, c)]
    /\ pc' = [pc EXCEPT ![c] = "closed"]
    /\ event' = NoEvent
    /\ UNCHANGED <<variant, store, gid, g, msg, running, ppc, preq, presp,
                   lastMover, nSetTurn, nMoves, scope, netVars, roomVars>>

\* ------------------------------------- websocket_game, commands not loading
\* Frames that never reach load_game.
OtherKinds ==
    {"invalid json", "missing cmd", "ping", "unknown cmd",
     "move without token", "move with refused token",
     "move without int position"}

\* What the handler does with such a frame: the reply it sends, "raise"
\* when an exception leaves the loop, "load" when the frame does reach
\* load_game (the top copy does not check the position's type).
OtherReply(v, kind) ==
    CASE kind = "ping" -> "pong"
      [] kind = "unknown cmd" -> "unknown cmd"
      [] kind = "invalid json" -> IF v = "pkg" THEN "invalid json" ELSE "raise"
      [] kind = "missing cmd" -> IF v = "pkg" THEN "missing cmd" ELSE "unknown cmd"
      [] kind = "move without token" ->
             IF v = "pkg" THEN "missing token" ELSE "raise"
      [] kind = "move with refused token" ->
             IF v = "pkg" THEN "auth failed" ELSE "raise"
      [] kind = "move without int position" ->
             IF v = "pkg" THEN "invalid position" ELSE "load"

\* An exception other than WebSocketDisconnect leaves the loop of the top
\* copy: the handler ends and the socket stays in WS_CONNECTIONS.
Raised(c) == pc' = [pc EXCEPT ![c] = "crashed"]

ReceiveOther(c, kind) ==
    /\ pc[c] = "recv"
    /\ running = None
    /\ kind \in scope.frames
    /\ OtherReply(variant, kind) # "load"
    /\ IF OtherReply(variant, kind) = "raise"
       THEN /\ Raised(c)
            /\ event' = NoEvent
       ELSE /\ pc' = pc
            /\ event' = IF OtherReply(variant, kind) = "pong"
                        THEN Reply(c, "pong", None)
                        ELSE Reply(c, "error", OtherReply(variant, kind))
    /\ UNCHANGED <<variant, store, WS_CONNECTIONS, gid, g, msg, running,
                   ppc, preq, presp, lastMover, nSetTurn, nMoves, scope, netVars, roomVars>>

\* ----------------------------------------- websocket_game, move and set_turn
\* Whether the coroutine keeps the event loop after load_game: there is no
\* await between load_game and persist_game.
AfterLoad(c) == c

\* A move or set_turn frame with a valid token: the handler reads the
\* username and the frame's fields and loads the game.  (The fields are
\* fixed by the frame; the model draws them where they are first used, in
\* ProcessMove and ProcessSetTurn.)
Receive(c, cmd) ==
    /\ pc[c] = "recv"
    /\ running = None
    /\ cmd = "move" => nMoves < scope.moves
    /\ cmd = "set_turn" => variant = "top" /\ nSetTurn < MaxSetTurn
    /\ msg' = [msg EXCEPT ![c] = cmd]
    /\ g' = [g EXCEPT ![c] = load_game(gid[c])]
    /\ pc' = [pc EXCEPT ![c] = "loaded"]
    /\ running' = AfterLoad(c)
    /\ event' = NoEvent
    /\ UNCHANGED <<variant, store, WS_CONNECTIONS, gid, ppc, preq, presp,
                   lastMover, nSetTurn, nMoves, scope, netVars, roomVars>>

\* The rest of a move: the checks, then the move applied, persisted and
\* broadcast; the handler is back at receive_text.
ProcessMove(c, username, intpos, position) ==
    LET err == MoveError(variant, g[c], username, intpos, position)
        after == ApplyMove(variant, g[c], username, position)
    IN  /\ pc[c] = "loaded"
        /\ running \in {None, c}
        /\ msg[c] = "move"
        /\ ~ intpos => variant = "top" /\ "move without int position" \in scope.frames
        /\ running' = None
        /\ g' = [g EXCEPT ![c] = NoGame]
        /\ msg' = [msg EXCEPT ![c] = None]
        /\ IF err = "raise"
           THEN /\ Raised(c)
                /\ event' = NoEvent
                /\ UNCHANGED <<store, lastMover, nMoves, outbox>>
           ELSE IF err # "ok"
           THEN /\ pc' = [pc EXCEPT ![c] = "recv"]
                /\ event' = Reply(c, "error", err)
                /\ UNCHANGED <<store, lastMover, nMoves, outbox>>
           ELSE /\ pc' = [pc EXCEPT ![c] = "recv"]
                /\ store' = persist_game(store, gid[c], g[c], after)
                /\ lastMover' = [lastMover EXCEPT ![gid[c]] = username]
                /\ nMoves' = nMoves + 1
                /\ event' = Broadcast(c, broadcast_update(gid[c]))
                /\ create_tasks(gid[c])
        /\ UNCHANGED <<variant, WS_CONNECTIONS, gid, ppc, preq, presp,
                       nSetTurn, scope, inbox, roomVars>>

\* The rest of set_turn: the checks, then the turn set, persisted, broadcast.
ProcessSetTurn(c, username, new_player) ==
    LET err == SetTurnError(g[c], username, new_player)
    IN  /\ pc[c] = "loaded"
        /\ running \in {None, c}
        /\ msg[c] = "set_turn"
        /\ running' = None
        /\ g' = [g EXCEPT ![c] = NoGame]
        /\ msg' = [msg EXCEPT ![c] = None]
        /\ pc' = [pc EXCEPT ![c] = "recv"]
        /\ nSetTurn' = nSetTurn + 1
        /\ IF err # "ok"
           THEN /\ event' = Reply(c, "error", err)
                /\ UNCHANGED <<store, outbox>>
           ELSE /\ store' = persist_game(store, gid[c], g[c],
                                         ApplySetTurn(g[c], new_player))
                /\ event' = Broadcast(c, broadcast_update(gid[c]))
                /\ create_tasks(gid[c])
        /\ UNCHANGED <<variant, WS_CONNECTIONS, gid, ppc, preq, presp,
                       lastMover, nMoves, scope, inbox, roomVars>>

\* ------------------------------------------------------ POST /games worker
\* create_game is a plain def: each request runs on a worker thread of the
\* pool, beside the event loop and beside other requests.
NoRequest == [game_id |-> None, players |-> <<>>, starting |-> None]

\* CreateGameIn: players is a list of exactly two strings.
ValidBody(payload) == Len(payload.players) = 2

\* A request arrives and its body is validated (422 when it is refused).
Post(t, payload) ==
    /\ ppc[t] = "idle"
    /\ preq' = [preq EXCEPT ![t] = payload]
    /\ IF ValidBody(payload)
       THEN /\ ppc' = [ppc EXCEPT ![t] = "check"]
            /\ presp' = presp
       ELSE /\ ppc' = [ppc EXCEPT ![t] = "done"]
            /\ presp' = [presp EXCEPT ![t] = 422]

\* if session.query(GameModel).filter(GameModel.id==gid).first(): 400
CreateCheck(t) ==
    /\ ppc[t] = "check"
    /\ IF store[preq[t].game_id].state # "absent"
       THEN /\ ppc' = [ppc EXCEPT ![t] = "done"]
            /\ presp' = [presp EXCEPT ![t] = 400]
       ELSE /\ ppc' = [ppc EXCEPT ![t] = "persist"]
            /\ presp' = presp
    /\ event' = NoEvent
    /\ UNCHANGED <<variant, store, WS_CONNECTIONS, pc, gid, g, msg, running,
                   preq, lastMover, nSetTurn, nMoves, scope, netVars, roomVars>>

\* broadcast_update on a worker thread: asyncio.create_task finds no running
\* loop and raises, and the except branch removes the socket from the list.
broadcast_from_thread(conns) == <<>>

\* persist_game, WS_CONNECTIONS.setdefault, broadcast_update, 201.
CreatePersist(t) ==
    LET id == preq[t].game_id IN
    /\ ppc[t] = "persist"
    /\ store' = persist_new(store, id, NewGame(preq[t]))
    /\ WS_CONNECTIONS' =
           [WS_CONNECTIONS EXCEPT ![id] = broadcast_from_thread(@)]
    /\ lastMover' = [lastMover EXCEPT ![id] = None]
    /\ ppc' = [ppc EXCEPT ![t] = "done"]
    /\ presp' = [presp EXCEPT ![t] = 201]
    /\ event' = NoEvent
    /\ UNCHANGED <<variant, pc, gid, g, msg, running, preq, nSetTurn,
                   nMoves, scope, netVars, roomVars>>

\* A client of the rules service sends POST /games.
ClientPost(t, payload) ==
    /\ t \in scope.posts
    /\ payload \in scope.bodies
    /\ Post(t, payload)
    /\ event' = NoEvent
    /\ UNCHANGED <<variant, store, WS_CONNECTIONS, pc, gid, g, msg, running,
                   lastMover, nSetTurn, nMoves, scope, netVars, roomVars>>

\* ------------------------------------------------------- the room service
RoomCodes == GameIds
\* max_players is any int: CreateRoomIn puts no bound on it.
Capacities == 0..3
RoomUsers == {"alice", "bob"}
Rooms == 1..MaxRooms

NoRoom == [id |-> None, host |-> None, players |-> <<>>, state |-> None,
           max_players |-> 0]

NoPayload == [game_id |-> None, starting |-> None]

\* The room dict of a code that is in ROOMS.
RoomOf(code) == rooms[ROOMS[code]]

\* notify_in_background spawns a thread; the model gives it the lowest
\* free number.
FreeNotifier ==
    CHOOSE n \in scope.notifiers :
        npc[n] = "free" /\ \A m \in scope.notifiers : m < n => npc[m] # "free"

notify_in_caller(r) ==
    /\ \E n \in scope.notifiers : npc[n] = "free"
    /\ npc' = [npc EXCEPT ![FreeNotifier] = "failed"]
    /\ nroom' = [nroom EXCEPT ![FreeNotifier] = r]

\* threading.Thread(target=notify_game_service_of_full_room, args=(room,),
\* daemon=True).start(): the thread is given the room dict itself and the
\* caller goes on at once.
notify_in_background(r) ==
    /\ \E n \in scope.notifiers : npc[n] = "free"
    /\ npc' = [npc EXCEPT ![FreeNotifier] = "start"]
    /\ nroom' = [nroom EXCEPT ![FreeNotifier] = r]

NoNotify == UNCHANGED <<npc, nroom>>

Response(op, code, user, status) ==
    [op |-> op, code |-> code, user |-> user, status |-> status]

\* POST /create-room
create_room(username, max_players) ==
    /\ IF username = ""
       THEN /\ rresp' = Response("create", None, username, 400)
            /\ UNCHANGED <<ROOMS, rooms, nRooms>>
       ELSE /\ nRooms < MaxRooms
            /\ \E code \in RoomCodes :
                  /\ ROOMS[code] = 0
                  /\ rooms' = [rooms EXCEPT ![nRooms + 1] =
                                  [id |-> code, host |-> username,
                                   players |-> <<username>>,
                                   state |-> "waiting",
                                   max_players |-> max_players]]
                  /\ ROOMS' = [ROOMS EXCEPT ![code] = nRooms + 1]
                  /\ rresp' = Response("create", code, username, 201)
            /\ nRooms' = nRooms + 1
    /\ NoNotify
    /\ UNCHANGED <<npayload, nattempt, nslept, gameVars>>
    /\ UNCHANGED jroom

AlreadyMemberIgnored(room, username) == FALSE

\* Whether join_room returns the room as it is for a member.
AlreadyMember(room, username) == Has(room.players, username)

AtCapacityNever(room) == FALSE

\* if len(room["players"]) >= room["max_players"]: 400 "Room is full"
AtCapacity(room) == Len(room.players) >= room.max_players

\* POST /join-room/{room_id}
join_room(code, username) ==
    /\ IF ROOMS[code] = 0
       THEN /\ rresp' = Response("join", code, username, 404)
            /\ NoNotify
            /\ UNCHANGED rooms
       ELSE LET r == ROOMS[code]
                room == rooms[r]
                joined == Append(room.players, username)
            IN  IF AlreadyMember(room, username)
                THEN /\ rresp' = Response("join", code, username, 200)
                     /\ NoNotify
                     /\ UNCHANGED rooms
                ELSE IF AtCapacity(room)
                THEN /\ rresp' = Response("join", code, username, 400)
                     /\ NoNotify
                     /\ UNCHANGED rooms
                ELSE /\ rresp' = Response("join", code, username, 200)
                     /\ IF Len(joined) >= room.max_players
                        THEN /\ rooms' = [rooms EXCEPT ![r].players = joined,
                                                       ![r].state = "full"]
                             /\ notify_in_background(r)
                        ELSE /\ rooms' = [rooms EXCEPT ![r].players = joined]
                             /\ NoNotify
    /\ UNCHANGED <<ROOMS, nRooms, npayload, nattempt, nslept, gameVars>>
    /\ UNCHANGED jroom

\* join_room on a worker thread, up to its capacity check (lines 112-118):
\* the call answers at once (404, 200 for a member, 400 at capacity) or
\* goes on to the append with the room dict it has read.
JoinCheck(code, username) ==
    /\ jroom[username] = 0
    /\ IF ROOMS[code] = 0
       THEN /\ rresp' = Response("join", code, username, 404)
            /\ jroom' = jroom
       ELSE IF AlreadyMember(RoomOf(code), username)
       THEN /\ rresp' = Response("join", code, username, 200)
            /\ jroom' = jroom
       ELSE IF AtCapacity(RoomOf(code))
       THEN /\ rresp' = Response("join", code, username, 400)
            /\ jroom' = jroom
       ELSE /\ rresp' = rresp
            /\ jroom' = [jroom EXCEPT ![username] = ROOMS[code]]
    /\ NoNotify
    /\ UNCHANGED <<ROOMS, rooms, nRooms, npayload, nattempt, nslept, gameVars>>

\* The rest of the call (lines 119-126): the append, then the room marked
\* full and the notifier spawned when the list has reached the capacity.
JoinAppend(username) ==
    LET r == jroom[username]
        joined == Append(rooms[r].players, username)
    IN  /\ r # 0
        /\ jroom' = [jroom EXCEPT ![username] = 0]
        /\ rresp' = Response("join", rooms[r].id, username, 200)
        /\ IF Len(joined) >= rooms[r].max_players
           THEN /\ rooms' = [rooms EXCEPT ![r].players = joined,
                                          ![r].state = "full"]
                /\ notify_in_background(r)
           ELSE /\ rooms' = [rooms EXCEPT ![r].players = joined]
                /\ NoNotify
        /\ UNCHANGED <<ROOMS, nRooms, npayload, nattempt, nslept, gameVars>>

NewHostKept(host, left) == host

\* if room["host"] not in room["players"]: room["host"] = room["players"][0]
NewHost(host, left) == IF Has(left, host) THEN host ELSE left[1]

\* POST /leave-room/{room_id}
leave_room(code, username) ==
    /\ IF ROOMS[code] = 0
       THEN /\ rresp' = Response("leave", code, username, 404)
            /\ UNCHANGED <<ROOMS, rooms>>
       ELSE LET r == ROOMS[code]
                room == rooms[r]
                left == Remove(room.players, username)
            IN  /\ rresp' = Response("leave", code, username, 200)
                /\ IF left = <<>>
                   THEN /\ ROOMS' = [ROOMS EXCEPT ![code] = 0]
                        /\ rooms' = [rooms EXCEPT ![r].players = left]
                   ELSE /\ ROOMS' = ROOMS
                        /\ rooms' = [rooms EXCEPT
                              ![r].players = left,
                              ![r].host = NewHost(room.host, left),
                              ![r].state = "waiting"]
    /\ NoNotify
    /\ UNCHANGED <<nRooms, npayload, nattempt, nslept, gameVars>>
    /\ UNCHANGED jroom

\* POST /start-game/{room_id}
start_game(code, username) ==
    /\ IF ROOMS[code] = 0
       THEN /\ rresp' = Response("start", code, username, 404)
            /\ NoNotify
            /\ UNCHANGED rooms
       ELSE LET r == ROOMS[code]
                room == rooms[r]
            IN  IF username = "" \/ username # room.host
                THEN /\ rresp' = Response("start", code, username, 403)
                     /\ NoNotify
                     /\ UNCHANGED rooms
                ELSE IF Len(room.players) < 2
                THEN /\ rresp' = Response("start", code, username, 400)
                     /\ NoNotify
                     /\ UNCHANGED rooms
                ELSE /\ rresp' = Response("start", code, username, 200)
                     /\ rooms' = [rooms EXCEPT ![r].state = "full"]
                     /\ notify_in_background(r)
    /\ UNCHANGED <<ROOMS, nRooms, npayload, nattempt, nslept, gameVars>>
    /\ UNCHANGED jroom

\* ------------------------------------- notify_game_service_of_full_room
\* The thread starts: it builds the payload.  game_id and starting are
\* values; players is the room's own list, read again at every request.
NotifyStart(n) ==
    LET room == rooms[nroom[n]] IN
    /\ npc[n] = "start"
    /\ npayload' = [npayload EXCEPT ![n] =
           [game_id |-> room.id,
            starting |-> IF room.players # <<>> THEN room.players[1] ELSE None]]
    /\ nattempt' = [nattempt EXCEPT ![n] = 1]
    /\ npc' = [npc EXCEPT ![n] = IF max_retries >= 1 THEN "attempt" ELSE "failed"]
    /\ UNCHANGED <<ROOMS, rooms, nRooms, rresp, nroom, nslept, gameVars>>
    /\ UNCHANGED jroom

\* requests.post reaches the rules service.
NotifyPost(n) ==
    /\ npc[n] = "attempt"
    /\ Post(n, [game_id |-> npayload[n].game_id,
                players |-> rooms[nroom[n]].players,
                starting |-> npayload[n].starting])
    /\ npc' = [npc EXCEPT ![n] = "wait"]
    /\ event' = NoEvent
    /\ UNCHANGED <<variant, store, WS_CONNECTIONS, pc, gid, g, msg, running,
                   lastMover, nSetTurn, nMoves, scope, netVars>>
    /\ UNCHANGED <<ROOMS, rooms, nRooms, rresp, nroom, npayload, nattempt,
                   nslept>>
    /\ UNCHANGED jroom

\* requests.post raises (the service is down, the request times out).
NotifyException(n) ==
    /\ npc[n] = "attempt"
    /\ npc' = [npc EXCEPT ![n] = "sleep"]
    /\ UNCHANGED <<ROOMS, rooms, nRooms, rresp, nroom, npayload, nattempt,
                   nslept, gameVars>>
    /\ UNCHANGED jroom

\* Whether the notifier takes a status as success: r.status_code in (200, 201).
IsSuccess(status) == status \in {200, 201}

\* The response arrives: return True on success, else go on to the sleep.
NotifyResponse(n) ==
    /\ npc[n] = "wait"
    /\ ppc[n] = "done"
    /\ npc' = [npc EXCEPT ![n] = IF IsSuccess(presp[n]) THEN "ok" ELSE "sleep"]
    /\ ppc' = [ppc EXCEPT ![n] = "idle"]
    /\ preq' = [preq EXCEPT ![n] = NoRequest]
    /\ presp' = [presp EXCEPT ![n] = 0]
    /\ event' = NoEvent
    /\ UNCHANGED <<variant, store, WS_CONNECTIONS, pc, gid, g, msg, running,
                   lastMover, nSetTurn, nMoves, scope, netVars>>
    /\ UNCHANGED <<ROOMS, rooms, nRooms, rresp, nroom, npayload, nattempt, nslept>>
    /\ UNCHANGED jroom

DelayFlat(attempt) == retry_delay

\* requests.post(..., timeout=5) raises though the rules service handled the
\* request: the answer comes too late and is dropped.
NotifyTimeout(n) ==
    /\ npc[n] = "wait"
    /\ ppc[n] = "done"
    /\ npc' = [npc EXCEPT ![n] = "sleep"]
    /\ ppc' = [ppc EXCEPT ![n] = "idle"]
    /\ preq' = [preq EXCEPT ![n] = NoRequest]
    /\ presp' = [presp EXCEPT ![n] = 0]
    /\ event' = NoEvent
    /\ UNCHANGED <<variant, store, WS_CONNECTIONS, pc, gid, g, msg, running,
                   lastMover, nSetTurn, nMoves, scope, netVars>>
    /\ UNCHANGED <<ROOMS, rooms, nRooms, rresp, nroom, npayload, nattempt, nslept>>
    /\ UNCHANGED jroom

\* The delay slept after failed attempt number attempt.
Delay(attempt) == retry_delay * attempt

\* time.sleep(retry_delay * attempt), then the next attempt, or, after the
\* last one, return False.
NotifySleep(n) ==
    /\ npc[n] = "sleep"
    /\ nslept' = [nslept EXCEPT ![n] = Append(@, Delay(nattempt[n]))]
    /\ IF nattempt[n] < max_retries
       THEN /\ nattempt' = [nattempt EXCEPT ![n] = @ + 1]
            /\ npc' = [npc EXCEPT ![n] = "attempt"]
       ELSE /\ nattempt' = nattempt
            /\ npc' = [npc EXCEPT ![n] = "failed"]
    /\ UNCHANGED <<ROOMS, rooms, nRooms, rresp, nroom, npayload, gameVars>>
    /\ UNCHANGED jroom

RoomInit ==
    /\ ROOMS = [code \in RoomCodes |-> 0]
    /\ rooms = [r \in Rooms |-> NoRoom]
    /\ nRooms = 0
    /\ rresp = Response(None, None, None, 0)
    /\ npc = [n \in Posts |-> "free"]
    /\ nroom = [n \in Posts |-> 0]
    /\ npayload = [n \in Posts |-> NoPayload]
    /\ nattempt = [n \in Posts |-> 0]
    /\ nslept = [n \in Posts |-> <<>>]
    /\ jroom = [u \in Users |-> 0]

\* --------------------------------------------------- the rules service
\* One request, one connection, every game played to its end (9 cells).
DeepScope ==
    [conns |-> {"c1"}, posts |-> {1}, moves |-> 9,
     bodies |-> {RegularBody}, frames |-> {}, variants |-> Variants,
     notifiers |-> {},
     capacities |-> {}, tasks |-> FALSE]

\* One request of any body, two connections, every frame.
WideScope ==
    [conns |-> Conns, posts |-> {1}, moves |-> MaxMoves,
     bodies |-> CreateInputs, frames |-> OtherKinds,
     variants |-> Variants, notifiers |-> {},
     capacities |-> {}, tasks |-> FALSE]

\* Requests side by side, one connection.
RaceScope ==
    [conns |-> {"c1"}, posts |-> Posts, moves |-> MaxMoves,
     bodies |-> {RegularBody}, frames |-> {}, variants |-> Variants,
     notifiers |-> {},
     capacities |-> {}, tasks |-> FALSE]

GameInit(sc) ==
    /\ scope = sc
    /\ variant \in sc.variants
    /\ store = [id \in GameIds |-> NoGame]
    /\ WS_CONNECTIONS = [id \in GameIds |-> <<>>]
    /\ pc = [c \in Conns |-> "closed"]
    /\ gid = [c \in Conns |-> "g1"]
    /\ g = [c \in Conns |-> NoGame]
    /\ msg = [c \in Conns |-> None]
    /\ running = None
    /\ ppc = [t \in Posts |-> "idle"]
    /\ preq = [t \in Posts |-> NoRequest]
    /\ presp = [t \in Posts |-> 0]
    /\ event = NoEvent
    /\ lastMover = [id \in GameIds |-> None]
    /\ nSetTurn = 0
    /\ nMoves = 0
    /\ outbox = <<>>
    /\ inbox = [c \in Conns |-> <<>>]

vars == <<gameVars, roomVars>>

Init == GameInit(DeepScope) /\ RoomInit

Next ==
    \/ \E t \in Posts, payload \in CreateInputs : ClientPost(t, payload)
    \/ \E t \in Posts : CreateCheck(t)
    \/ \E t \in Posts : CreatePersist(t)
    \/ \E c \in Conns, id \in GameIds : Attach(c, id)
    \/ \E c \in Conns : AttachNotFoundClose(c)
    \/ \E c \in Conns : Disconnect(c)
    \/ \E c \in Conns, cmd \in {"move", "set_turn"} : Receive(c, cmd)
    \/ \E c \in Conns, u \in Users, p \in Positions : ProcessMove(c, u, TRUE, p)
    \/ \E c \in Conns, u \in Users, n \in Users : ProcessSetTurn(c, u, n)

\* The rules service with commands in sequence: games played to their end.
Spec == Init /\ [][Next]_vars

NextChannels ==
    \/ Next
    \/ \E c \in Conns, kind \in OtherKinds : ReceiveOther(c, kind)
    \/ \E c \in Conns, u \in Users : ProcessMove(c, u, FALSE, 0)

\* The rules service with two connections and every kind of frame.
InitChannels == GameInit(WideScope) /\ RoomInit

SpecChannels == InitChannels /\ [][NextChannels]_vars

\* One regular request, two connections, moves and set_turn only.
PairScope == [WideScope EXCEPT !.bodies = {RegularBody}, !.frames = {}]

InitPair == GameInit(PairScope) /\ RoomInit

\* The rules service with two connections on one regular match.
SpecPair == InitPair /\ [][Next]_vars

\* The rules service with POST /games requests side by side.
InitRace == GameInit(RaceScope) /\ RoomInit

SpecRace == InitRace /\ [][Next]_vars

\* No client of the rules service but the notifier threads; no connection.
RoomScope ==
    [conns |-> {}, posts |-> {}, moves |-> 0, bodies |-> {}, frames |-> {},
     variants |-> {"pkg"}, notifiers |-> Posts, capacities |-> {2, 3},
     tasks |-> FALSE]

\* The same with a single notifier thread.
NotifyScope == [RoomScope EXCEPT !.notifiers = {1}]

\* A single notifier thread, and every capacity create_room accepts.
CallsScope ==
    [RoomScope EXCEPT !.notifiers = {1}, !.capacities = Capacities]

NextRoom ==
    \/ \E u \in RoomUsers \cup {""}, m \in scope.capacities : create_room(u, m)
    \/ \E code \in RoomCodes, u \in RoomUsers : join_room(code, u)
    \/ \E code \in RoomCodes, u \in RoomUsers : leave_room(code, u)
    \/ \E code \in RoomCodes, u \in RoomUsers : start_game(code, u)
    \/ \E n \in Posts : NotifyStart(n)
    \/ \E n \in Posts : NotifyPost(n)
    \/ \E n \in Posts : NotifyException(n)
    \/ \E n \in Posts : NotifyResponse(n)
    \/ \E n \in Posts : NotifyTimeout(n)
    \/ \E n \in Posts : NotifySleep(n)
    \/ \E t \in Posts : CreateCheck(t)
    \/ \E t \in Posts : CreatePersist(t)

\* The room service, its notifier threads and the rules service's POST /games.
InitRoom == GameInit(RoomScope) /\ RoomInit

SpecRoom == InitRoom /\ [][NextRoom]_vars

InitCalls == GameInit(CallsScope) /\ RoomInit

\* The room service's calls with every capacity.
SpecCalls == InitCalls /\ [][NextRoom]_vars

\* A notifier thread's own steps.
NotifyStep(n) ==
    \/ NotifyStart(n)
    \/ NotifyPost(n)
    \/ NotifyException(n)
    \/ NotifyResponse(n)
    \/ NotifyTimeout(n)
    \/ NotifySleep(n)

\* The same, with the threads scheduled: a notifier thread that can step
\* does step (requests.post returns or raises within its timeout, sleep
\* returns), and a worker thread of the rules service handles its request.
InitNotify == GameInit(NotifyScope) /\ RoomInit

SpecNotify ==
    /\ InitNotify /\ [][NextRoom]_vars
    /\ \A n \in Posts : WF_vars(NotifyStep(n))
    /\ \A t \in Posts : WF_vars(CreateCheck(t) \/ CreatePersist(t))

\* ================================================================== claims
\* A move command of connection c ends in this step with the move applied.
MoveApplied(c) ==
    /\ pc[c] = "loaded"
    /\ msg[c] = "move"
    /\ nMoves' = nMoves + 1

\* A move command of connection c ends in this step, applied or not.
MoveDone(c) ==
    /\ pc[c] = "loaded"
    /\ msg[c] = "move"
    /\ pc'[c] # "loaded"

\* C1: of two move commands pending on the same match in the same stored
\* state, exactly one is applied: the handler that applies a move validated
\* it against the stored state itself (no other write came between its load
\* and its persist), and every move that would have passed validation in
\* that stored state is rejected in the state the applied move leaves.
C1_OneOfTwoMovesApplied ==
    [][\A c \in Conns :
          MoveApplied(c) =>
            /\ g[c] = store[gid[c]]
            /\ \A u \in Users, p \in Positions :
                  MoveError(variant, store[gid[c]], u, TRUE, p) = "ok"
                     => MoveError(variant, store'[gid[c]], u, TRUE, p)
                           \notin {"ok", "raise"}]_vars

\* C2: a stored match is finished exactly when its board holds a winning
\* line or is full, and a full board holding a winning line is a win for a
\* participant, not a draw.
C2_FinishedIffLineOrFull ==
    \A id \in GameIds :
        store[id].state # "absent" =>
            /\ store[id].state = "finished"
                  <=> (LinesWon(store[id].board) # {} \/ BoardFull(store[id].board))
            /\ (BoardFull(store[id].board) /\ LinesWon(store[id].board) # {})
                  => /\ store[id].winner # "draw"
                     /\ InPlayers(store[id].winner, store[id])

\* A match finished by a move that fills the last cell and completes a line.
C2_Witness ==
    \E id \in GameIds :
        /\ store[id].state = "finished"
        /\ BoardFull(store[id].board)
        /\ LinesWon(store[id].board) # {}
        /\ InPlayers(store[id].winner, store[id])

\* C3: the turn alternates: an applied move is never made by the
\* participant who made the previous applied move of the match, and after
\* an applied move that does not finish the match the turn is with another
\* participant than the mover.
C3_TurnAlternates ==
    [][\A c \in Conns :
          MoveApplied(c) =>
            /\ lastMover'[gid[c]] # lastMover[gid[c]]
            /\ store'[gid[c]].state = "in_progress" =>
                  /\ store'[gid[c]].turn # lastMover'[gid[c]]
                  /\ InPlayers(store'[gid[c]].turn, store'[gid[c]])]_vars

NotInProgress == {"game not in progress", "not in progress"}

\* C4: a move command on a match stored as finished is answered with the
\* not-in-progress error on its own connection, whoever the caller and
\* whatever the position; the store is unchanged and nothing is broadcast.
C4_FinishedRejects ==
    [][\A c \in Conns :
          (MoveDone(c) /\ store[gid[c]].state = "finished") =>
            /\ store' = store
            /\ event' \in {Reply(c, "error", d) : d \in NotInProgress}]_vars

\* A move command has just been refused on a finished match.
C4_Witness ==
    \E c \in Conns :
        /\ event \in {Reply(c, "error", d) : d \in NotInProgress}
        /\ pc[c] = "recv"
        /\ store[gid[c]].state = "finished"

\* C5: each cell of a match's board is written at most once: a cell that
\* holds a marker keeps that marker in every later state of the match.
C5_CellsWrittenOnce ==
    [][\A id \in GameIds : \A i \in 0..8 :
          (store[id].state # "absent" /\ store[id].board[i] # None)
             => store'[id].board[i] = store[id].board[i]]_vars

\* The notifier threads spawned for room dict r so far.
Triggered(r) == {n \in Posts : nroom[n] = r}

\* C6: the notifier is triggered once per room: never a second time for the
\* same room, whatever calls are made on it.
C6_HandoffOncePerRoom ==
    \A r \in Rooms : Cardinality(Triggered(r)) <= 1

\* C7: a join_room call by an identity that is already a member leaves the
\* room dicts as they are (members, host, state), spawns no notifier and
\* answers 200, also when the room is at capacity.
C7_JoinIdempotent ==
    [][\A code \in RoomCodes, u \in RoomUsers :
          (/\ ROOMS[code] # 0
           /\ Has(RoomOf(code).players, u)
           /\ join_room(code, u))
             => /\ rooms' = rooms
                /\ ROOMS' = ROOMS
                /\ npc' = npc
                /\ nroom' = nroom
                /\ rresp'.status = 200]_vars

\* The first member of a room at capacity has just called join_room again.
C7_Witness ==
    \E code \in RoomCodes, u \in RoomUsers :
        /\ ROOMS[code] # 0
        /\ rresp = Response("join", code, u, 200)
        /\ Len(RoomOf(code).players) >= 2
        /\ Len(RoomOf(code).players) >= RoomOf(code).max_players
        /\ RoomOf(code).players[1] = u
        /\ RoomOf(code).state = "full"

\* C8: a start_game call by the host on a room that is already full (or
\* in_progress) returns the room and spawns no notifier.
C8_StartIdempotent ==
    [][\A code \in RoomCodes, u \in RoomUsers :
          (/\ ROOMS[code] # 0
           /\ RoomOf(code).state \in {"full", "in_progress"}
           /\ u = RoomOf(code).host
           /\ start_game(code, u))
             => /\ rooms' = rooms
                /\ npc' = npc
                /\ nroom' = nroom]_vars

\* C9: a notifier thread that gets the rules service's answer for a game id
\* already stored (400, "Game exists") returns success and stops.
C9_ExistsIsSuccess ==
    [][\A n \in Posts :
          (/\ npc[n] = "wait"
           /\ ppc[n] = "done"
           /\ presp[n] = 400
           /\ NotifyResponse(n))
             => npc'[n] = "ok"]_vars

\* The delays slept after the failed attempts 1..k.
Delays(k) == [i \in 1..k |-> retry_delay * i]

Returned == {"ok", "failed"}

\* C10: the notifier terminates; it returns success at the first success
\* answer and goes on to no further attempt; after failed attempt number k
\* it has waited retry_delay * k; when every attempt fails it makes exactly
\* max_retries attempts and returns failure.
C10_NotifyTerminates ==
    /\ \A n \in Posts : (npc[n] = "start") ~> (npc[n] \in Returned)
    /\ [][\A n \in Posts :
             /\ npc[n] \in Returned =>
                   (npc'[n] = npc[n] /\ nattempt'[n] = nattempt[n]
                      /\ nslept'[n] = nslept[n] /\ ppc'[n] = ppc[n])
             /\ (NotifyResponse(n) /\ presp[n] \in {200, 201}) => npc'[n] = "ok"
             /\ (NotifyResponse(n) /\ presp[n] \notin {200, 201})
                   => npc'[n] = "sleep"]_vars
    /\ [](\A n \in Posts :
             /\ npc[n] \in {"attempt", "wait"} =>
                   /\ nattempt[n] \in 1..max_retries
                   /\ nslept[n] = Delays(nattempt[n] - 1)
             /\ npc[n] = "sleep" =>
                   /\ nattempt[n] \in 1..max_retries
                   /\ nslept[n] = Delays(nattempt[n] - 1)
             /\ npc[n] = "ok" =>
                   /\ nattempt[n] \in 1..max_retries
                   /\ nslept[n] = Delays(nattempt[n] - 1)
             /\ npc[n] = "failed" =>
                   /\ nattempt[n] = max_retries
                   /\ nslept[n] = Delays(max_retries))

\* A notifier thread has returned failure after max_retries failed attempts.
C10_Witness ==
    \E n \in Posts :
        /\ npc[n] = "failed"
        /\ Len(nslept[n]) = max_retries
        /\ nattempt[n] = max_retries

\* C11: a POST /games for an id already stored is answered 400 and leaves
\* the store as it is, also when two requests for the same id are handled
\* side by side: the request that ends while the id is stored creates
\* nothing and resets nothing.
C11_CreateNeverResets ==
    [][\A t \in Posts :
          (/\ ppc[t] \in {"check", "persist"}
           /\ ppc'[t] = "done"
           /\ store[preq[t].game_id].state # "absent")
             => /\ presp'[t] = 400
                /\ store' = store]_vars

\* ------------------------------------------------- the end-to-end scenario
\* The clients' calls of the scenario: alice creates a room of capacity 2,
\* bob joins, and the moves below are sent in this order, each once the
\* one before is applied.  The notifier thread, the worker threads and the
\* connections take their steps freely.
Script ==
    << <<"alice", 0>>, <<"bob", 3>>, <<"alice", 1>>, <<"bob", 4>>,
       <<"alice", 2>> >>

E2EScope ==
    [conns |-> Conns, posts |-> {}, moves |-> Len(Script), bodies |-> {},
     frames |-> {}, variants |-> Variants, notifiers |-> {1},
     capacities |-> {2}, tasks |-> FALSE]

AliceCreates ==
    /\ nRooms = 0
    /\ create_room("alice", 2)

BobJoins(code) ==
    /\ ROOMS[code] # 0
    /\ ~ Has(RoomOf(code).players, "bob")
    /\ join_room(code, "bob")

ScriptedMove(c) ==
    /\ nMoves < Len(Script)
    /\ ProcessMove(c, Script[nMoves + 1][1], TRUE, Script[nMoves + 1][2])

InitE2E == GameInit(E2EScope) /\ RoomInit

NextE2E ==
    \/ AliceCreates
    \/ \E code \in RoomCodes : BobJoins(code)
    \/ \E n \in Posts : NotifyStep(n)
    \/ \E t \in Posts : CreateCheck(t)
    \/ \E t \in Posts : CreatePersist(t)
    \/ \E c \in Conns, id \in GameIds : Attach(c, id)
    \/ \E c \in Conns : AttachNotFoundClose(c)
    \/ \E c \in Conns : Disconnect(c)
    \/ \E c \in Conns : Receive(c, "move")
    \/ \E c \in Conns : ScriptedMove(c)

SpecE2E == InitE2E /\ [][NextE2E]_vars

\* C12: in the scenario, the match the handoff creates has the room's id,
\* participants [alice, bob], alice on X and bob on O, and, before any
\* move, turn = alice and an empty board, the room being full; each of the
\* moves alice 0, bob 3, alice 1, bob 4, alice 2 is applied when it is
\* sent; after the fifth the match is finished, the winner is alice and the
\* cells 0, 1, 2 hold X.
C12_EndToEnd ==
    /\ [](\A id \in GameIds :
             store[id].state # "absent" =>
                /\ ROOMS[id] # 0
                /\ RoomOf(id).id = id
                /\ RoomOf(id).state = "full"
                /\ store[id].players = <<"alice", "bob">>
                /\ store[id].symbols["alice"] = "X"
                /\ store[id].symbols["bob"] = "O"
                /\ nMoves = 0 =>
                      /\ store[id].turn = "alice"
                      /\ store[id].board = new_board
                      /\ store[id].state = "in_progress"
                /\ nMoves < Len(Script) => store[id].state = "in_progress"
                /\ nMoves = Len(Script) =>
                      /\ store[id].state = "finished"
                      /\ store[id].winner = "alice"
                      /\ \A i \in {0, 1, 2} : store[id].board[i] = "X")
    /\ [][\A c \in Conns : MoveDone(c) => MoveApplied(c)]_vars

\* The scenario has run to its end.
C12_Witness ==
    \E id \in GameIds :
        /\ nMoves = Len(Script)
        /\ store[id].state = "finished"
        /\ store[id].winner = "alice"
        /\ store[id].board[2] = "X"
        /\ lastMover[id] = "alice"

\* What validation finds wrong with a move by u at p on an in_progress game.
Rejected(game, u, p) ==
    \/ ~ InPlayers(u, game)
    \/ game.turn # u
    \/ p \notin 0..8
    \/ game.board[p] # None

ValidationErrors ==
    {"you are not a player in this game", "not your turn",
     "position must be 0..8", "cell already taken",
     "not a player", "invalid move"}

\* C13: a move that validation rejects (the caller is no participant or
\* does not hold the turn, the position is outside 0..8 or its cell is
\* taken) is answered with an error on the caller's connection only: the
\* store and the registry are unchanged and nothing is broadcast.
C13_RejectedMoveOnlyReplies ==
    [][\A c \in Conns, u \in Users, p \in Positions :
          (/\ ProcessMove(c, u, TRUE, p)
           /\ store[gid[c]].state = "in_progress"
           /\ Rejected(store[gid[c]], u, p))
             => /\ store' = store
                /\ WS_CONNECTIONS' = WS_CONNECTIONS
                /\ pc'[c] = "recv"
                /\ event' \in {Reply(c, "error", d) : d \in ValidationErrors}]_vars

\* A move on a taken cell has just been refused while two connections are
\* registered on the match.
C13_Witness ==
    \E c \in Conns :
        /\ event \in {Reply(c, "error", d) : d \in {"cell already taken", "invalid move"}}
        /\ pc[c] = "recv"
        /\ store[gid[c]].state = "in_progress"
        /\ Len(WS_CONNECTIONS[gid[c]]) = 2
        /\ \E i \in 0..8 : store[gid[c]].board[i] # None

\* C14: the turn of a stored match that is in_progress is one of its
\* participants, whatever body POST /games accepted and whatever commands
\* were applied since.
C14_TurnIsParticipant ==
    \A id \in GameIds :
        store[id].state = "in_progress" => InPlayers(store[id].turn, store[id])

\* C15: in every stored match the markers are a bijection between the two
\* participants and {X, O}: the participants are two identities, the first
\* holds X and the second holds O.
C15_MarkersBijection ==
    \A id \in GameIds :
        store[id].state # "absent" =>
            /\ store[id].players[1] # store[id].players[2]
            /\ DOMAIN store[id].symbols = {store[id].players[1], store[id].players[2]}
            /\ store[id].symbols[store[id].players[1]] = "X"
            /\ store[id].symbols[store[id].players[2]] = "O"

\* A move or set_turn command of connection c ends in this step.
CommandDone(c) ==
    /\ pc[c] = "loaded"
    /\ pc'[c] # "loaded"

\* C16: finished is terminal: a command (move or set_turn) that ends while
\* the stored match is finished leaves the match as it is.
C16_FinishedIsTerminal ==
    [][\A c \in Conns :
          (CommandDone(c) /\ store[gid[c]].state = "finished")
             => store'[gid[c]] = store[gid[c]]]_vars

\* The room dicts that are in the registry.
Registered == {ROOMS[code] : code \in {k \in RoomCodes : ROOMS[k] # 0}}

\* C17: every room in the registry has a capacity of at least 2 and no
\* more members than its capacity.
C17_CapacityBounds ==
    \A r \in Registered :
        /\ rooms[r].max_players >= 2
        /\ Len(rooms[r].players) <= rooms[r].max_players

\* C18: the host of every room in the registry is one of its members.
C18_HostIsMember ==
    \A r \in Registered : Has(rooms[r].players, rooms[r].host)

\* The host has just left a room that still has a member: the host is now
\* that member.
C18_Witness ==
    \E code \in RoomCodes, u \in RoomUsers :
        /\ ROOMS[code] # 0
        /\ rresp = Response("leave", code, u, 200)
        /\ ~ Has(RoomOf(code).players, u)
        /\ RoomOf(code).host # u
        /\ RoomOf(code).players # <<>>
        /\ RoomOf(code).players[1] = RoomOf(code).host

\* ------------------------------------------------ broadcasts, task by task
\* Two connections, with the send tasks of every broadcast followed one by
\* one and a frame that makes a handler end.
SendScope ==
    [conns |-> Conns, posts |-> {1}, moves |-> 1,
     bodies |-> {RegularBody},
     frames |-> {"invalid json"},
     variants |-> Variants, notifiers |-> {}, capacities |-> {},
     tasks |-> TRUE]

InitSend == GameInit(SendScope) /\ RoomInit

NextSend ==
    \/ Next
    \/ \E c \in Conns, kind \in OtherKinds : ReceiveOther(c, kind)
    \/ \E c \in Conns : SendDelivered(c)
    \/ \E c \in Conns : SendFailed(c)

SpecSend == InitSend /\ [][NextSend]_vars

\* C19: a broadcast makes a send for every registered socket and returns
\* to the command that triggered it without an error; when the send to one
\* socket fails, that socket is removed from the registry.
C19_FailedSendDetaches ==
    [][\A c \in Conns :
          /\ SendFailed(c) => ~ Has(WS_CONNECTIONS'[gid[c]], c)
          /\ (CommandDone(c) /\ event'.bcast # <<>>) =>
                /\ pc'[c] = "recv"
                /\ event'.bcast = WS_CONNECTIONS[gid[c]]
                /\ \A d \in Conns :
                      Has(WS_CONNECTIONS[gid[c]], d) =>
                         \E i \in 1..Len(outbox') :
                            /\ outbox'[i].conn = d
                            /\ outbox'[i].game = store'[gid[c]]]_vars

\* C20: attaching to a stored match registers the socket under the match
\* id and sends the stored snapshot to that socket alone: the store is
\* unchanged, no send task is made and no other socket gets a message.
C20_AttachSendsToCallerOnly ==
    [][\A c \in Conns, id \in GameIds :
          (Attach(c, id) /\ store[id].state # "absent") =>
             /\ store' = store
             /\ WS_CONNECTIONS' =
                   [WS_CONNECTIONS EXCEPT ![id] = Append(WS_CONNECTIONS[id], c)]
             /\ event' = Reply(c, "game_update", store[id])
             /\ outbox' = outbox
             /\ inbox'[c] = <<store[id]>>
             /\ \A d \in Conns \ {c} : inbox'[d] = inbox[d]]_vars

\* A socket has just attached to a match that another socket is registered
\* on and that has moves on its board.
C20_Witness ==
    \E c \in Conns :
        /\ event = Reply(c, "game_update", store[gid[c]])
        /\ inbox[c] = <<store[gid[c]]>>
        /\ Len(WS_CONNECTIONS[gid[c]]) = 2
        /\ WS_CONNECTIONS[gid[c]][2] = c
        /\ nMoves >= 1
        /\ \A d \in Conns \ {c} : inbox[d] # <<>>

\* ------------------------------------------------- the order of snapshots
\* Two connections that stay attached to one regular match, moves only,
\* with the send tasks followed one by one.
OrderScope == [SendScope EXCEPT !.moves = MaxMoves, !.frames = {}]

InitOrder == GameInit(OrderScope) /\ RoomInit

NextOrder ==
    \/ \E t \in Posts, payload \in CreateInputs : ClientPost(t, payload)
    \/ \E t \in Posts : CreateCheck(t)
    \/ \E t \in Posts : CreatePersist(t)
    \/ \E c \in Conns, id \in GameIds : Attach(c, id)
    \/ \E c \in Conns : AttachNotFoundClose(c)
    \/ \E c \in Conns : Receive(c, "move")
    \/ \E c \in Conns, u \in Users, p \in Positions : ProcessMove(c, u, TRUE, p)
    \/ \E c \in Conns : SendDelivered(c)

SpecOrder == InitOrder /\ [][NextOrder]_vars

\* The number of cells of a snapshot that hold a marker.
Marks(game) == Cardinality({i \in 0..8 : game.board[i] # None})

\* The oldest send task for connection c in the queue.
OldestFor(c) ==
    CHOOSE i \in 1..Len(outbox) :
        outbox[i].conn = c /\ \A j \in 1..(i - 1) : outbox[j].conn # c

NoSlot == \A n \in scope.notifiers : npc[n] # "free"

\* A notifier thread is between the start of a request and its next attempt.
InFlight(n) == npc[n] \in {"attempt", "wait", "sleep"}

\* C22: a join_room or start_game call that spawns the notifier answers 200
\* with the thread not yet started on its first attempt (no request made,
\* no delay slept), and the room calls can be made whatever the notifier
\* threads are doing: a thread that waits for an answer or sleeps between
\* attempts blocks none of them.
C22_HandoffOffCallerPath ==
    /\ [][\A code \in RoomCodes, u \in RoomUsers :
             ((join_room(code, u) \/ start_game(code, u)) /\ npc' # npc)
                => /\ rresp'.status = 200
                   /\ rresp'.code = code
                   /\ \E n \in Posts :
                         /\ npc[n] = "free"
                         /\ npc'[n] = "start"
                         /\ nroom'[n] = ROOMS[code]
                         /\ \A m \in Posts \ {n} : npc'[m] = npc[m]
                   /\ ppc' = ppc
                   /\ preq' = preq
                   /\ nattempt' = nattempt
                   /\ nslept' = nslept]_vars
    /\ [](\A code \in RoomCodes, u \in RoomUsers :
             /\ ENABLED leave_room(code, u)
             /\ NoSlot \/ ENABLED join_room(code, u)
             /\ NoSlot \/ ENABLED start_game(code, u)
             /\ (ROOMS[code] # 0 /\ Has(RoomOf(code).players, u))
                   => ENABLED join_room(code, u)
             /\ (ROOMS[code] # 0 /\ u # RoomOf(code).host)
                   => ENABLED start_game(code, u))

\* A leave_room call has been answered while a notifier thread waits for
\* the rules service's answer, which has not been made.
C22_Witness ==
    \E n \in Posts :
        /\ npc[n] = "wait"
        /\ ppc[n] \in {"check", "persist"}
        /\ rresp.op = "leave"
        /\ rresp.status = 200

\* The move frames whose token is not verified: none in the message and the
\* query string, or one the user service refuses (or cannot be asked about).
Unverified == {"move without token", "move with refused token"}

\* C23: a move command whose token is not verified is answered with an
\* error on its own connection; the store is unchanged and the handler
\* stays registered and goes on to the next command.
C23_AuthFailedKeepsChannel ==
    [][\A c \in Conns, kind \in Unverified :
          ReceiveOther(c, kind) =>
             /\ event' \in {Reply(c, "error", d) : d \in {"missing token", "auth failed"}}
             /\ store' = store
             /\ WS_CONNECTIONS' = WS_CONNECTIONS
             /\ pc'[c] = "recv"]_vars

\* ------------------------------------------------ rooms with three callers
\* The room service called by three identities, rooms of capacity 2 or 3.
\* The notifier threads are spawned and not followed further: the room
\* calls read nothing of what the threads do.
CrowdScope == RoomScope

InitCrowd == GameInit(CrowdScope) /\ RoomInit

NextCrowd ==
    \/ \E u \in Users \cup {""}, m \in scope.capacities : create_room(u, m)
    \/ \E code \in RoomCodes, u \in Users : join_room(code, u)
    \/ \E code \in RoomCodes, u \in Users : leave_room(code, u)
    \/ \E code \in RoomCodes, u \in Users \cup {""} : start_game(code, u)

SpecCrowd == InitCrowd /\ [][NextCrowd]_vars

\* The registry and the notifier threads spawned are as they were.
RegistryUnchanged ==
    /\ ROOMS' = ROOMS
    /\ rooms' = rooms
    /\ nRooms' = nRooms
    /\ npc' = npc
    /\ nroom' = nroom

\* C24: a room call that fails leaves the registry as it is and spawns no
\* notifier: join_room on an unknown code answers 404, join_room by a
\* non-member on a room at capacity 400, start_game by another caller than
\* the host 403, start_game by the host with fewer than 2 members 400,
\* create_room with an empty username 400.
C24_FailuresChangeNothing ==
    [][/\ \A code \in RoomCodes, u \in Users :
             /\ (join_room(code, u) /\ ROOMS[code] = 0)
                   => (rresp'.status = 404 /\ RegistryUnchanged)
             /\ (/\ join_room(code, u)
                 /\ ROOMS[code] # 0
                 /\ ~ Has(RoomOf(code).players, u)
                 /\ Len(RoomOf(code).players) >= RoomOf(code).max_players)
                   => (rresp'.status = 400 /\ RegistryUnchanged)
       /\ \A code \in RoomCodes, u \in Users \cup {""} :
             /\ (/\ start_game(code, u)
                 /\ ROOMS[code] # 0
                 /\ u # RoomOf(code).host)
                   => (rresp'.status = 403 /\ RegistryUnchanged)
             /\ (/\ start_game(code, u)
                 /\ ROOMS[code] # 0
                 /\ u = RoomOf(code).host
                 /\ Len(RoomOf(code).players) < 2)
                   => (rresp'.status = 400 /\ RegistryUnchanged)
       /\ \A m \in Capacities :
             create_room("", m) => (rresp'.status = 400 /\ RegistryUnchanged)
       /\ (rresp' # rresp /\ rresp'.status \notin {200, 201})
             => RegistryUnchanged]_vars

\* A third identity has just been refused by a room of two at capacity 2.
C24_Witness ==
    \E code \in RoomCodes, u \in Users :
        /\ ROOMS[code] # 0
        /\ rresp = Response("join", code, u, 400)
        /\ ~ Has(RoomOf(code).players, u)
        /\ Len(RoomOf(code).players) = 2
        /\ RoomOf(code).max_players = 2
        /\ RoomOf(code).state = "full"

\* The members of a room without u, in their order.
Others(players, u) == SelectSeq(players, LAMBDA x : x # u)

\* C25: leave_room on a registered room takes the caller out of the
\* members; when nobody is left the code is taken out of ROOMS; otherwise
\* the other members keep their order, the host is the first of them when
\* the caller was the host and is unchanged when not, the state is waiting,
\* and no notifier is spawned.
C25_LeaveRoom ==
    [][\A code \in RoomCodes, u \in Users :
          (leave_room(code, u) /\ ROOMS[code] # 0) =>
             LET r == ROOMS[code]
                 left == Others(rooms[r].players, u)
             IN  /\ rresp'.status = 200
                 /\ npc' = npc
                 /\ nroom' = nroom
                 /\ \A q \in Rooms \ {r} : rooms'[q] = rooms[q]
                 /\ IF left = <<>>
                    THEN ROOMS' = [ROOMS EXCEPT ![code] = 0]
                    ELSE /\ ROOMS' = ROOMS
                         /\ rooms'[r] =
                               [rooms[r] EXCEPT
                                   !.players = left,
                                   !.host = IF rooms[r].host = u
                                            THEN left[1] ELSE rooms[r].host,
                                   !.state = "waiting"]]_vars

\* The host has just left a full room of three: the two others remain in
\* their order, the first of them is the host and the state is waiting.
C25_Witness ==
    \E code \in RoomCodes, u \in Users :
        /\ ROOMS[code] # 0
        /\ rresp = Response("leave", code, u, 200)
        /\ RoomOf(code).max_players = 3
        /\ Len(RoomOf(code).players) = 2
        /\ ~ Has(RoomOf(code).players, u)
        /\ RoomOf(code).host = RoomOf(code).players[1]
        /\ RoomOf(code).state = "waiting"
        /\ \E n \in Posts : npc[n] # "free"

\* C26: a set_turn command on a stored match is refused with an error on
\* the caller's connection, the store unchanged and nothing broadcast,
\* unless the caller and the target are both participants; when both are,
\* the stored match changes in its turn only, which becomes the target, and
\* the match is broadcast to every registered socket.
C26_SetTurnOnlyTurn ==
    [][\A c \in Conns, u \in Users, n \in Users :
          (ProcessSetTurn(c, u, n) /\ store[gid[c]].state # "absent") =>
             IF InPlayers(u, store[gid[c]]) /\ InPlayers(n, store[gid[c]])
             THEN /\ store' = [store EXCEPT ![gid[c]].turn = n]
                  /\ event' = Broadcast(c, WS_CONNECTIONS[gid[c]])
                  /\ pc'[c] = "recv"
             ELSE /\ store' = store
                  /\ event'.conn = c
                  /\ event'.reply = "error"
                  /\ event'.bcast = <<>>]_vars

\* Before any move, a set_turn has given the turn to the second
\* participant and was broadcast to two registered sockets.
C26_Witness ==
    \E c \in Conns :
        /\ nSetTurn = 1
        /\ nMoves = 0
        /\ event = Broadcast(c, WS_CONNECTIONS[gid[c]])
        /\ Len(WS_CONNECTIONS[gid[c]]) = 2
        /\ store[gid[c]].turn = store[gid[c]].players[2]
        /\ store[gid[c]].board = new_board

\* ------------------------------------------------------- games played out
\* One connection, one regular match, every game played to its end by the
\* participants, with positions on the board; set_turn as in Spec.
NextPlay ==
    \/ \E t \in Posts, payload \in CreateInputs : ClientPost(t, payload)
    \/ \E t \in Posts : CreateCheck(t)
    \/ \E t \in Posts : CreatePersist(t)
    \/ \E c \in Conns, id \in GameIds : Attach(c, id)
    \/ \E c \in Conns, cmd \in {"move", "set_turn"} : Receive(c, cmd)
    \/ \E c \in Conns, u \in RoomUsers, p \in 0..8 : ProcessMove(c, u, TRUE, p)
    \/ \E c \in Conns, u \in RoomUsers, n \in RoomUsers : ProcessSetTurn(c, u, n)

SpecPlay == Init /\ [][NextPlay]_vars

\* C27: the two copies agree on every move that passes validation on a
\* stored match in progress: the copy that names the owner of the winning
\* marker and the copy that names the caller make the same match of it
\* (board, state, turn, winner), and both accept the same moves.
C27_VariantsAgree ==
    \A id \in GameIds, u \in Users, p \in Positions :
        store[id].state = "in_progress" =>
            /\ MoveErrorPkg(store[id], u, TRUE, p) = "ok"
                  <=> MoveErrorTop(store[id], u, TRUE, p) = "ok"
            /\ MoveError(variant, store[id], u, TRUE, p) = "ok"
                  => ApplyMove("pkg", store[id], u, p)
                        = ApplyMove("top", store[id], u, p)

\* A match in progress in which the participant on turn has a move that
\* completes a line.
C27_Witness ==
    \E id \in GameIds, u \in Users, p \in Positions :
        /\ store[id].state = "in_progress"
        /\ MoveError(variant, store[id], u, TRUE, p) = "ok"
        /\ ApplyMove("pkg", store[id], u, p).state = "finished"
        /\ ApplyMove("top", store[id], u, p).winner = u
        /\ u = store[id].players[2]

\* ------------------------------------------------- join_room side by side
\* Rooms of capacity 2 or 3 and join_room calls of three identities handled
\* on worker threads side by side; nobody leaves and nobody calls
\* start_game.
NextJoin ==
    \/ \E u \in Users, m \in scope.capacities : create_room(u, m)
    \/ \E code \in RoomCodes, u \in Users : JoinCheck(code, u)
    \/ \E u \in Users : JoinAppend(u)

InitJoin == GameInit(RoomScope) /\ RoomInit

SpecJoin == InitJoin /\ [][NextJoin]_vars

\* C28: with join_room calls handled side by side, a room never has more
\* members than its capacity and its notifier is spawned at most once.
C28_JoinRaceKeepsCapacity ==
    \A r \in Registered :
        /\ Len(rooms[r].players) <= rooms[r].max_players
        /\ Cardinality(Triggered(r)) <= 1

\* ------------------------------------------------- what the notifier sends
\* A notifier thread that has been spawned and has not returned.
Live(n) == npc[n] \in {"start", "attempt", "wait", "sleep"}

\* The body of the request thread n makes if its next request is made now:
\* game_id and starting are fixed once the payload is built, players is the
\* room's list as it is.
WouldSend(n) ==
    LET room == rooms[nroom[n]] IN
    [game_id  |-> room.id,
     players  |-> room.players,
     starting |-> IF npc[n] # "start" THEN npayload[n].starting
                  ELSE IF room.players # <<>> THEN room.players[1] ELSE None]

\* C29: what a notifier thread sends is fixed when it is spawned: no step
\* taken while the thread lives changes the body of its next request, and
\* every request it makes has the room's id as game_id and the first of its
\* players as starting.
C29_PayloadAsTriggered ==
    [][\A n \in Posts :
          /\ (Live(n) /\ npc'[n] \in {"start", "attempt", "wait", "sleep"})
                => WouldSend(n)' = WouldSend(n)
          /\ NotifyPost(n) =>
                /\ preq'[n].game_id = rooms[nroom[n]].id
                /\ preq'[n].players # <<>>
                /\ preq'[n].starting = preq'[n].players[1]]_vars

\* C30: WS_CONNECTIONS holds only sockets whose handler is running: once a
\* handler has ended, for whatever reason, its socket is in no list.
C30_RegistryOnlyLive ==
    \A id \in GameIds : \A i \in 1..Len(WS_CONNECTIONS[id]) :
        SocketOpen(WS_CONNECTIONS[id][i])

\* --------------------------------------------------- the count of markers
\* The copy without set_turn, two POST /games requests side by side whose
\* bodies name the same two participants and either of them as starting.
StartsScope ==
    [RaceScope EXCEPT
        !.variants = {"pkg"},
        !.bodies = {b \in CreateInputs :
                       /\ b.players[1] # b.players[2]
                       /\ b.starting \in {None, b.players[1], b.players[2]}}]

InitStarts == GameInit(StartsScope) /\ RoomInit

\* The steps of that copy: it has no set_turn command.
NextStarts ==
    \/ \E t \in Posts, payload \in CreateInputs : ClientPost(t, payload)
    \/ \E t \in Posts : CreateCheck(t)
    \/ \E t \in Posts : CreatePersist(t)
    \/ \E c \in Conns, id \in GameIds : Attach(c, id)
    \/ \E c \in Conns : AttachNotFoundClose(c)
    \/ \E c \in Conns : Disconnect(c)
    \/ \E c \in Conns : Receive(c, "move")
    \/ \E c \in Conns, u \in Users, p \in Positions : ProcessMove(c, u, TRUE, p)

SpecStarts == InitStarts /\ [][NextStarts]_vars

\* How many cells of a board hold marker s.
Count(board, s) == Cardinality({i \in 0..8 : board[i] = s})

\* The marker of the identity a request body makes the starter.
StarterMarker(payload) == NewGame(payload).symbols[NewGame(payload).turn]

\* C31: in the copy without set_turn, the board of a stored match holds
\* as many X as O or one more of either, and the marker of the starting
\* participant (the one named by the request that created the match) is
\* never the one with fewer cells.
C31_MarkersBalanced ==
    \A id \in GameIds :
        store[id].state # "absent" =>
            /\ Count(store[id].board, "X") - Count(store[id].board, "O") \in -1..1
            /\ \A t \in Posts :
                  (presp[t] = 201 /\ preq[t].game_id = id) =>
                     \A s \in {"X", "O"} :
                        Count(store[id].board, StarterMarker(preq[t]))
                           >= Count(store[id].board, s)

\* The markers that hold a complete line of a board.
LineMarkers(board) == {board[WIN_LINES[i][1]] : i \in LinesWon(board)}

\* C32: in every stored match the winner is None exactly when the state is
\* in_progress; a finished match has the winner "draw", its board being
\* full without a complete line, or a participant whose marker holds every
\* complete line of the board; no board holds complete lines of both
\* markers.
C32_WinnerMatchesState ==
    \A id \in GameIds :
        store[id].state # "absent" =>
            /\ store[id].state \in {"in_progress", "finished"}
            /\ store[id].winner = None <=> store[id].state = "in_progress"
            /\ store[id].state = "finished" =>
                  \/ /\ store[id].winner = "draw"
                     /\ BoardFull(store[id].board)
                     /\ LinesWon(store[id].board) = {}
                  \/ /\ LinesWon(store[id].board) # {}
                     /\ InPlayers(store[id].winner, store[id])
                     /\ LineMarkers(store[id].board)
                           = {store[id].symbols[store[id].winner]}
            /\ Cardinality(LineMarkers(store[id].board)) <= 1

\* A match that ended in a draw: nine cells written and no complete line.
C32_Witness ==
    \E id \in GameIds :
        /\ store[id].state = "finished"
        /\ store[id].winner = "draw"
        /\ nMoves = 9
        /\ LineMarkers(store[id].board) = {}

====
